---- MODULE Spec2Model ----
(***************************************************************************)
(* Job / application lifecycle of the recruiting marketplace (src/main.py, *)
(* src/models.py, src/database.py).  The tables are the state; there is    *)
(* one action per request handler.  Every handler runs on a session made   *)
(* by SessionLocal (autoflush=False): a query reads the rows as the        *)
(* database holds them, not the attribute changes the handler has made in  *)
(* memory and not yet flushed.                                             *)
(*                                                                         *)
(* Spec serves the lifecycle requests one at a time, SpecConc interleaves  *)
(* post_apply and change_application_status, SpecPosting follows the       *)
(* posting and payment of several jobs with their prices and with commits *)
(* that fail, SpecPrice applies calculate_posting_price to pairs of        *)
(* integers, SpecNotifications follows the Notification table and its      *)
(* is_read flags, SpecRatings the RecruiterRating table and SpecChat the   *)
(* messages and files of the applications' chats; all but                  *)
(* SpecNotifications keep, of the Notification table, the rows the last    *)
(* request added.                                                          *)
(***************************************************************************)
EXTENDS Integers, Sequences, FiniteSets, Bags, TLC

\* ------------------------------------------------------------------ bounds
NumRecruiters == 3
\* rows one recruiter may come to hold on one job (1 = no duplicate possible)
MaxDuplicates == 2
\* requests served at the same time (SpecConc)
MaxInFlight == 2
\* jobs posted (SpecPosting)
NumPostings == 2
\* rows of the Notification table (SpecNotifications)
MaxNotifications == 3
\* rows of the RecruiterRating table (SpecRatings)
MaxRatings == 2
\* rows of the Message table (SpecChat)
MaxMessages == 3

\* ------------------------------------------------------------------- users
\* The User table is fixed: registration is not part of the lifecycle.
Admins == {"a1", "a2"}
Employers == {"e1", "e2"}
RecruiterNames == <<"r1", "r2", "r3", "r4", "r5", "r6">>
Recruiters == {RecruiterNames[k] : k \in 1..NumRecruiters}
Users == Admins \cup Employers \cup Recruiters

user_type(u) ==
    IF u \in Admins THEN "admin"
    ELSE IF u \in Employers THEN "employer" ELSE "recruiter"

\* Every handler addresses one job by its id and no query joins the rows of
\* two jobs, so the model follows one job id.  Before post_new_job has
\* created the row, a request for it takes the handler's not-found path.
JobIds == {"j1"}

\* SpecPosting follows the posting and the payment of several jobs; it names
\* the job rows in the order of their creation.
PostingJobNames == <<"j1", "j2", "j3", "j4">>
PostingJobIds == {PostingJobNames[k] : k \in 1..NumPostings}

\* ------------------------------------------------------------------- enums
JobStatus ==
    {"draft", "pending", "open", "paused", "in_progress", "completed",
     "archived", "rejected"}
ApplicationStatus == {"pending", "selected", "working", "completed", "rejected"}
PaymentStatus == {"pending", "paid", "failed", "refunded"}
NotificationType ==
    {"new_application", "new_job", "new_message", "job_status_change",
     "application_status_change", "new_rating", "job_approved", "job_rejected",
     "payment_success"}
ModerationActions == {"approve", "reject", "other"}

\* The limit of selected recruiters per job: the literal 3 of the guard and
\* of the completion rule in change_application_status.
SelectedLimit == 3
\* Job.max_applications as post_new_job sets it.
DefaultMaxApplications == 3

\* MIN_POSTING_PRICE and PRICE_MULTIPLIER (0.7, in tenths).  The code computes
\* prices as floats; the model keeps them exact, in twentieths of a tenge:
\* ((a + b) / 2) * 0.7 = 7 * (a + b) / 20.
MIN_POSTING_PRICE == 3000
PRICE_MULTIPLIER_TENTHS == 7
Twentieths(tenge) == 20 * tenge

\* Row ids are uuid4 strings the handlers never inspect.  The model names an
\* application row <<job, recruiter, k>>: the k-th row that recruiter holds
\* on that job.
ApplicationIds == JobIds \X Recruiters \X (1..MaxDuplicates)

VARIABLES
    jobs,              \* Job table: job id -> row
    payments,          \* Payment table, in row order
    applications,      \* Application table: application id -> row
    newNotifications,  \* bag of the rows the last request added to Notification
    lastOp,            \* the handler that served the last request
    response,          \* its answer
    inflight,          \* SpecConc: worker thread -> the request it is serving
    notifications,     \* SpecNotifications: the Notification table, in row order
    ratings,           \* SpecRatings: the RecruiterRating table, in row order
    messages,          \* SpecChat: the Message table, in row order
    chat_files,        \* SpecChat: the ChatFile table, in row order
    pricing            \* SpecPrice: a call of calculate_posting_price

vars ==
    <<jobs, payments, applications, newNotifications, lastOp, response, inflight,
      notifications, ratings, messages, chat_files, pricing>>

\* what the lifecycle handlers neither read nor write
OtherTables == <<ratings, messages, chat_files, pricing>>

\* no call of calculate_posting_price is followed
NoCall == [salary_min |-> 0, salary_max |-> 0, called |-> FALSE, price |-> 0]

EmptyOtherTables ==
    /\ ratings = <<>>
    /\ messages = <<>>
    /\ chat_files = <<>>
    /\ pricing = NoCall

\* FastAPI runs the def handlers on a thread pool, each with its own session
Workers == 1..MaxInFlight
Idle == [op |-> "idle"]

\* ----------------------------------------------------------------- helpers
\* create_notification: the row it inserts
create_notification(user_id, type, related_job_id) ==
    [user_id |-> user_id, type |-> type, related_job_id |-> related_job_id]

OneNotification(user_id, type, related_job_id) ==
    SetToBag({create_notification(user_id, type, related_job_id)})

\* the filter compares the job id with the wrong column
ApplicationsOfJobWrongColumn(apps, job_id) ==
    {i \in DOMAIN apps : apps[i].recruiter_id = job_id}

\* db.query(Application).filter(Application.job_id == job_id)
ApplicationsOfJob(apps, job_id) ==
    {i \in DOMAIN apps : apps[i].job_id = job_id}

SelectedOrWorking == {"selected", "working"}

CountStatus(apps, job_id, statuses) ==
    Cardinality({i \in ApplicationsOfJob(apps, job_id) : apps[i].status \in statuses})

\* the loop over the job's applications: one job_status_change notification
\* per application row, to the row's recruiter
StatusChangeNotifications(apps, job_id) ==
    LET ids == ApplicationsOfJob(apps, job_id)
        rows == {create_notification(apps[i].recruiter_id, "job_status_change", job_id) :
                    i \in ids}
    IN  [n \in rows |-> Cardinality({i \in ids : apps[i].recruiter_id = n.user_id})]

\* the limit of applications compared with > instead of >=
auto_update_job_status_strict(apps, job_id, job) ==
    LET applications_count == Cardinality({i \in DOMAIN apps : apps[i].job_id = job_id})
        selected_count == CountStatus(apps, job_id, SelectedOrWorking)
        completed_count == CountStatus(apps, job_id, {"completed"})
    IN  IF completed_count > 0 /\ job.status # "completed" THEN "completed"
        ELSE IF selected_count > 0 /\ job.status = "open" THEN "in_progress"
        ELSE IF applications_count > job.max_applications /\ job.status = "open"
             THEN "in_progress"
        ELSE job.status

\* auto_update_job_status: the status it leaves the job with
auto_update_job_status(apps, job_id, job) ==
    LET applications_count == Cardinality(ApplicationsOfJob(apps, job_id))
        selected_count == CountStatus(apps, job_id, SelectedOrWorking)
        completed_count == CountStatus(apps, job_id, {"completed"})
    IN  IF completed_count > 0 /\ job.status # "completed" THEN "completed"
        ELSE IF selected_count > 0 /\ job.status = "open" THEN "in_progress"
        ELSE IF applications_count >= job.max_applications /\ job.status = "open"
             THEN "in_progress"
        ELSE job.status

\* the price without the check for a negative salary
calculate_posting_price_no_sign_check(salary_min, salary_max) ==
    IF salary_min = 0 /\ salary_max = 0 THEN Twentieths(MIN_POSTING_PRICE)
    ELSE LET calculated_price == PRICE_MULTIPLIER_TENTHS * (salary_min + salary_max)
         IN  IF calculated_price >= Twentieths(MIN_POSTING_PRICE)
             THEN calculated_price ELSE Twentieths(MIN_POSTING_PRICE)

\* the price without the floor of MIN_POSTING_PRICE
calculate_posting_price_no_floor(salary_min, salary_max) ==
    IF salary_min < 0 \/ salary_max < 0 THEN Twentieths(MIN_POSTING_PRICE)
    ELSE IF salary_min = 0 /\ salary_max = 0 THEN Twentieths(MIN_POSTING_PRICE)
    ELSE PRICE_MULTIPLIER_TENTHS * (salary_min + salary_max)

\* calculate_posting_price, with the default multiplier
calculate_posting_price(salary_min, salary_max) ==
    IF salary_min < 0 \/ salary_max < 0 THEN Twentieths(MIN_POSTING_PRICE)
    ELSE IF salary_min = 0 /\ salary_max = 0 THEN Twentieths(MIN_POSTING_PRICE)
    ELSE LET calculated_price == PRICE_MULTIPLIER_TENTHS * (salary_min + salary_max)
         IN  IF calculated_price >= Twentieths(MIN_POSTING_PRICE)
             THEN calculated_price ELSE Twentieths(MIN_POSTING_PRICE)

\* A form field is a string: a sequence of characters.
Digits == {"0", "1", "2", "3", "4", "5", "6", "7", "8", "9"}
DigitValue(c) ==
    CASE c = "0" -> 0 [] c = "1" -> 1 [] c = "2" -> 2 [] c = "3" -> 3
      [] c = "4" -> 4 [] c = "5" -> 5 [] c = "6" -> 6 [] c = "7" -> 7
      [] c = "8" -> 8 [] c = "9" -> 9
\* str.isdigit(), on the characters the model's forms are made of
isdigit(form) == form # <<>> /\ \A k \in 1..Len(form) : form[k] \in Digits
\* int(form) of a string of digits
RECURSIVE int(_)
int(form) ==
    IF form = <<>> THEN 0
    ELSE 10 * int(SubSeq(form, 1, Len(form) - 1)) + DigitValue(form[Len(form)])
\* int(salary) if salary.isdigit() else 0
ParseSalary(form) == IF isdigit(form) THEN int(form) ELSE 0

JobExists(job_id) == job_id \in DOMAIN jobs

\* the lookup of the job without the filter on its employer
OwnsJobUnfiltered(u, job_id) == JobExists(job_id)

\* db.query(Job).filter(Job.id == job_id, Job.employer_id == current_user.id)
OwnsJob(u, job_id) == JobExists(job_id) /\ jobs[job_id].employer_id = u

\* only one of the admins is told of the job
PaymentNotificationsOneAdmin(u, job_id) ==
    OneNotification(u, "payment_success", job_id)
    (+) OneNotification(CHOOSE a \in Admins : TRUE, "new_job", job_id)

\* the notifications of process_job_payment: payment_success to the payer,
\* then new_job to every row of User with user_type admin
PaymentNotifications(u, job_id) ==
    OneNotification(u, "payment_success", job_id)
    (+) SetToBag({create_notification(a, "new_job", job_id) : a \in Admins})

\* the notification addressed to the requesting employer
ApplicationStatusNotificationToRequester(apps, application_id, u) ==
    OneNotification(u, "application_status_change", apps[application_id].job_id)

\* the notification of change_application_status, to application.recruiter_id
ApplicationStatusNotification(apps, application_id, u) ==
    OneNotification(apps[application_id].recruiter_id,
                    "application_status_change", apps[application_id].job_id)
PaymentsOfJob(job_id) == {i \in DOMAIN payments : payments[i].job_id = job_id}
\* .first(): the earliest row
First(S) == CHOOSE i \in S : \A k \in S : i <= k

\* db.query(Application).filter(job_id == job_id, recruiter_id == u).first()
\* of post_apply: is there such a row
NoExistingApplication(apps, job_id, u) == FALSE

existing_application(apps, job_id, u) ==
    \E i \in ApplicationsOfJob(apps, job_id) : apps[i].recruiter_id = u

\* a fresh application id for a new row of recruiter u on the job
FreshApplicationIds(apps, job_id, u) ==
    {id \in ApplicationIds \ DOMAIN apps :
        /\ id[1] = job_id /\ id[2] = u
        /\ \A k \in 1..(id[3] - 1) : <<job_id, u, k>> \in DOMAIN apps}

Insert(table, id, row) ==
    [i \in DOMAIN table \cup {id} |-> IF i = id THEN row ELSE table[i]]

Answer(op, resp, notifs) ==
    /\ lastOp' = op
    /\ response' = resp
    /\ newNotifications' = notifs
    /\ inflight' = inflight
    /\ notifications' = notifications
    /\ UNCHANGED OtherTables

\* ---------------------------------------------------------------- handlers
Init ==
    /\ jobs = <<>>
    /\ payments = <<>>
    /\ applications = <<>>
    /\ newNotifications = EmptyBag
    /\ lastOp = "none"
    /\ response = "none"
    /\ inflight = [w \in Workers |-> Idle]
    /\ notifications = <<>>
    /\ EmptyOtherTables

\* job_id is the uuid4 the new row gets
\* A commit of post_new_job may raise (the database is locked, the disk is
\* full): failure says which of the two commits does, if any.
CommitFailures == {"none", "job_commit", "payment_commit"}

post_new_job(u, job_id, salary_min, salary_max, failure) ==
    IF user_type(u) # "employer"
    THEN /\ Answer("post_new_job", "403", EmptyBag)
         /\ UNCHANGED <<jobs, payments, applications>>
    ELSE LET min_salary == ParseSalary(salary_min)
             max_salary == ParseSalary(salary_max)
             posting_price == calculate_posting_price(min_salary, max_salary)
             job == [employer_id |-> u, status |-> "draft",
                     salary_min |-> min_salary, salary_max |-> max_salary,
                     max_applications |-> DefaultMaxApplications]
         IN  /\ job_id \notin DOMAIN jobs
             /\ IF failure = "job_commit"
                \* the first commit raises: rollback, nothing is stored
                THEN /\ Answer("post_new_job", "error", EmptyBag)
                     /\ UNCHANGED <<jobs, payments>>
                ELSE IF failure = "payment_commit"
                \* the second commit raises: the rollback undoes the payment,
                \* the job is committed already
                THEN /\ jobs' = Insert(jobs, job_id, job)
                     /\ Answer("post_new_job", "error", EmptyBag)
                     /\ UNCHANGED payments
                ELSE /\ jobs' = Insert(jobs, job_id, job)
                     /\ payments' = Append(payments,
                                        [job_id |-> job_id, employer_id |-> u,
                                         amount |-> posting_price, status |-> "pending"])
                     /\ Answer("post_new_job", "303", EmptyBag)
             /\ UNCHANGED applications

process_job_payment(u, job_id) ==
    IF ~OwnsJob(u, job_id) \/ PaymentsOfJob(job_id) = {}
    THEN /\ Answer("process_job_payment", "404", EmptyBag)
         /\ UNCHANGED <<jobs, payments, applications>>
    ELSE LET p == First(PaymentsOfJob(job_id))
         IN  /\ payments' = [payments EXCEPT ![p].status = "paid"]
             /\ jobs' = [jobs EXCEPT ![job_id].status = "pending"]
             /\ Answer("process_job_payment", "303", PaymentNotifications(u, job_id))
             /\ UNCHANGED applications

moderate_job(u, job_id, action) ==
    IF user_type(u) # "admin"
    THEN /\ Answer("moderate_job", "403", EmptyBag)
         /\ UNCHANGED <<jobs, payments, applications>>
    ELSE IF ~JobExists(job_id)
    THEN /\ Answer("moderate_job", "404", EmptyBag)
         /\ UNCHANGED <<jobs, payments, applications>>
    ELSE /\ UNCHANGED <<payments, applications>>
         /\ CASE action = "approve" ->
                   /\ jobs' = [jobs EXCEPT ![job_id].status = "open"]
                   /\ Answer("moderate_job", "303",
                        OneNotification(jobs[job_id].employer_id, "job_approved", job_id))
              [] action = "reject" ->
                   /\ jobs' = [jobs EXCEPT ![job_id].status = "rejected"]
                   /\ Answer("moderate_job", "303",
                        OneNotification(jobs[job_id].employer_id, "job_rejected", job_id))
              [] OTHER ->
                   /\ jobs' = jobs
                   /\ Answer("moderate_job", "303", EmptyBag)

post_apply(u, job_id) ==
    IF user_type(u) # "recruiter"
    THEN /\ Answer("post_apply", "403", EmptyBag)
         /\ UNCHANGED <<jobs, payments, applications>>
    ELSE IF ~JobExists(job_id)
    THEN /\ Answer("post_apply", "404", EmptyBag)
         /\ UNCHANGED <<jobs, payments, applications>>
    ELSE IF jobs[job_id].status # "open"
    THEN /\ Answer("post_apply", "job_not_open", EmptyBag)
         /\ UNCHANGED <<jobs, payments, applications>>
    ELSE IF Cardinality(ApplicationsOfJob(applications, job_id))
              >= jobs[job_id].max_applications
    THEN /\ Answer("post_apply", "max_applications", EmptyBag)
         /\ UNCHANGED <<jobs, payments, applications>>
    ELSE IF existing_application(applications, job_id, u)
    THEN /\ Answer("post_apply", "already_applied", EmptyBag)
         /\ UNCHANGED <<jobs, payments, applications>>
    ELSE \E id \in FreshApplicationIds(applications, job_id, u) :
         LET apps == Insert(applications, id,
                        [job_id |-> job_id, recruiter_id |-> u, status |-> "pending"])
             new_status == auto_update_job_status(apps, job_id, jobs[job_id])
         IN  /\ applications' = apps
             /\ jobs' = [jobs EXCEPT ![job_id].status = new_status]
             /\ Answer("post_apply", "applied",
                  (IF new_status # jobs[job_id].status
                   THEN StatusChangeNotifications(apps, job_id) ELSE EmptyBag)
                  (+) OneNotification(jobs[job_id].employer_id,
                                      "new_application", job_id))
             /\ UNCHANGED payments

change_job_status(u, job_id, new_status) ==
    IF ~OwnsJob(u, job_id)
    THEN /\ Answer("change_job_status", "404", EmptyBag)
         /\ UNCHANGED <<jobs, payments, applications>>
    ELSE /\ jobs' = [jobs EXCEPT ![job_id].status = new_status]
         /\ Answer("change_job_status", "303",
                   StatusChangeNotifications(applications, job_id))
         /\ UNCHANGED <<payments, applications>>

\* The status change_application_status leaves the job with.  The count is a
\* query, and the session does not autoflush: it sees the rows as they were
\* before application.status was assigned.
JobStatusAfterSelection(apps, job_id, job) ==
    LET selected_count_after == CountStatus(apps, job_id, SelectedOrWorking)
    IN  IF selected_count_after >= SelectedLimit /\ job.status # "completed"
        THEN "completed"
        ELSE IF selected_count_after > 0 /\ job.status = "open" THEN "in_progress"
        ELSE job.status

\* the guard compares with > instead of >=
SelectionLimitExceeded(apps, application_id, new_status) ==
    /\ new_status \in SelectedOrWorking
    /\ Cardinality({i \in ApplicationsOfJob(apps, apps[application_id].job_id) :
                      /\ apps[i].status \in SelectedOrWorking
                      /\ i # application_id}) > SelectedLimit

\* the guard of change_application_status: the limit of selected recruiters
SelectionLimitReached(apps, application_id, new_status) ==
    /\ new_status \in SelectedOrWorking
    /\ Cardinality({i \in ApplicationsOfJob(apps, apps[application_id].job_id) :
                      /\ apps[i].status \in SelectedOrWorking
                      /\ i # application_id}) >= SelectedLimit

change_application_status(u, application_id, new_status) ==
    IF application_id \notin DOMAIN applications
    THEN /\ Answer("change_application_status", "404", EmptyBag)
         /\ UNCHANGED <<jobs, payments, applications>>
    ELSE IF ~OwnsJob(u, applications[application_id].job_id)
    THEN /\ Answer("change_application_status", "403", EmptyBag)
         /\ UNCHANGED <<jobs, payments, applications>>
    ELSE IF SelectionLimitReached(applications, application_id, new_status)
    THEN /\ Answer("change_application_status", "400", EmptyBag)
         /\ UNCHANGED <<jobs, payments, applications>>
    ELSE LET job_id == applications[application_id].job_id
         IN  /\ applications' = [applications EXCEPT ![application_id].status = new_status]
             /\ jobs' = [jobs EXCEPT ![job_id].status =
                            JobStatusAfterSelection(applications, job_id, jobs[job_id])]
             /\ Answer("change_application_status", "303",
                  ApplicationStatusNotification(applications, application_id, u))
             /\ UNCHANGED payments

\* --------------------------------------------------------- request inputs
\* A handler that refuses a request before it reads a form field is driven
\* with one value of that field: the refusal does not depend on it.
ActionInputs(u) ==
    IF user_type(u) = "admin" THEN ModerationActions ELSE {"approve"}
JobStatusInputs(u, job_id) ==
    IF OwnsJob(u, job_id) THEN JobStatus ELSE {"open"}
ApplicationStatusInputs(u, application_id) ==
    IF /\ application_id \in DOMAIN applications
       /\ OwnsJob(u, applications[application_id].job_id)
    THEN ApplicationStatus ELSE {"selected"}
\* the existing rows, and one id that names no row
ApplicationIdInputs ==
    DOMAIN applications \cup
    (IF ApplicationIds \ DOMAIN applications = {} THEN {}
     ELSE {CHOOSE id \in ApplicationIds \ DOMAIN applications : TRUE})

\* The handlers of the applications never read a job's salary: Spec posts
\* every job with one salary, SpecPosting with each of SalaryForms.
LifecycleSalary == <<"1", "0", "0", "0", "0">>
SalaryForms ==
    {<<"a", "b", "c">>, <<"-", "5">>, <<"0">>, <<"4", "0", "0", "0">>,
     <<"1", "0", "0", "0", "0">>}

Next ==
    \/ \E u \in Users, j \in JobIds :
          post_new_job(u, j, LifecycleSalary, LifecycleSalary, "none")
    \/ \E u \in Users, j \in JobIds : process_job_payment(u, j)
    \/ \E u \in Users, j \in JobIds :
          \E a \in ActionInputs(u) : moderate_job(u, j, a)
    \/ \E u \in Users, j \in JobIds : post_apply(u, j)
    \/ \E u \in Users, j \in JobIds :
          \E s \in JobStatusInputs(u, j) : change_job_status(u, j, s)
    \/ \E u \in Users, a \in ApplicationIdInputs :
          \E s \in ApplicationStatusInputs(u, a) : change_application_status(u, a, s)

Spec == Init /\ [][Next]_vars

\* ------------------------------------------------- posting and payment
\* SpecPosting: the two handlers that write the Payment table, on several
\* jobs and with each salary.
\* the next unused job id, in the order of PostingJobNames
NextPostingId(job_id) ==
    \E k \in 1..NumPostings :
        /\ job_id = PostingJobNames[k]
        /\ \A i \in 1..(k - 1) : PostingJobNames[i] \in DOMAIN jobs
        /\ \A i \in k..NumPostings : PostingJobNames[i] \notin DOMAIN jobs

NextPosting ==
    \/ \E u \in Users, j \in PostingJobIds, a \in SalaryForms, b \in SalaryForms,
          f \in CommitFailures :
          NextPostingId(j) /\ post_new_job(u, j, a, b, f)
    \/ \E u \in Users, j \in PostingJobIds : process_job_payment(u, j)

SpecPosting == Init /\ [][NextPosting]_vars

\* ------------------------------------------------ calculate_posting_price
\* SpecPrice: one call of calculate_posting_price on a pair of integers.
SalaryValues ==
    {-5, -1, 0, 1, 4285, 4286, 8572, 10000, 20000, 200000, 400000}

InitPrice ==
    /\ jobs = <<>>
    /\ payments = <<>>
    /\ applications = <<>>
    /\ newNotifications = EmptyBag
    /\ lastOp = "none"
    /\ response = "none"
    /\ inflight = [w \in Workers |-> Idle]
    /\ notifications = <<>>
    /\ ratings = <<>>
    /\ messages = <<>>
    /\ chat_files = <<>>
    /\ \E a \in SalaryValues, b \in SalaryValues :
          pricing = [salary_min |-> a, salary_max |-> b, called |-> FALSE, price |-> 0]

call_calculate_posting_price ==
    /\ ~pricing.called
    /\ pricing' = [pricing EXCEPT
                     !.called = TRUE,
                     !.price = calculate_posting_price(pricing.salary_min,
                                                       pricing.salary_max)]
    /\ lastOp' = "calculate_posting_price"
    /\ UNCHANGED <<jobs, payments, applications, newNotifications, response, inflight,
                   notifications, ratings, messages, chat_files>>

NextPrice == call_calculate_posting_price

SpecPrice == InitPrice /\ [][NextPrice]_vars

\* ------------------------------------------------ the Notification table
\* SpecNotifications: the rows create_notification adds for the handlers
\* above, and the two handlers that mark rows read.  A row's id is its
\* place in the table.
AnswerNotification(op, notifs) ==
    /\ lastOp' = op
    /\ response' = "303"
    /\ newNotifications' = notifs
    /\ UNCHANGED <<jobs, payments, applications, inflight, OtherTables>>

\* create_notification: db.add and db.commit of a row; is_read takes the
\* column's default
add_notification(user_id, type, related_job_id) ==
    /\ Len(notifications) < MaxNotifications
    /\ notifications' = Append(notifications,
                            [user_id |-> user_id, type |-> type,
                             related_job_id |-> related_job_id, is_read |-> FALSE])
    /\ AnswerNotification("create_notification",
                          OneNotification(user_id, type, related_job_id))

mark_notification_read(u, notification_id) ==
    /\ notifications' =
          IF /\ notification_id \in DOMAIN notifications
             /\ notifications[notification_id].user_id = u
          THEN [notifications EXCEPT ![notification_id].is_read = TRUE]
          ELSE notifications
    /\ AnswerNotification("mark_notification_read", EmptyBag)

\* the filter without the user
UnreadOfAnyone(table, u) ==
    {i \in DOMAIN table : table[i].is_read = FALSE}

\* filter(Notification.user_id == current_user.id, Notification.is_read == False)
UnreadOf(table, u) ==
    {i \in DOMAIN table : table[i].user_id = u /\ table[i].is_read = FALSE}

mark_all_notifications_read(u) ==
    /\ notifications' =
          [i \in DOMAIN notifications |->
              IF i \in UnreadOf(notifications, u)
              THEN [notifications[i] EXCEPT !.is_read = TRUE]
              ELSE notifications[i]]
    /\ AnswerNotification("mark_all_notifications_read", EmptyBag)

\* the ids of the rows, and one id that names no row
NotificationIdInputs == 1..(Len(notifications) + 1)

NextNotifications ==
    \/ \E u \in Users, j \in JobIds : add_notification(u, "job_status_change", j)
    \/ \E u \in Users, n \in NotificationIdInputs : mark_notification_read(u, n)
    \/ \E u \in Users : mark_all_notifications_read(u)

SpecNotifications == Init /\ [][NextNotifications]_vars


\* ------------------------------------------------ the RecruiterRating table
\* SpecRatings: post_rate_recruiter on the RecruiterRating table, whose rows
\* carry recruiter_id, employer_id, job_id, overall_rating and comment.
AnswerRating(op, resp, notifs) ==
    /\ lastOp' = op
    /\ response' = resp
    /\ newNotifications' = notifs
    /\ UNCHANGED <<jobs, payments, applications, inflight, notifications,
                   messages, chat_files, pricing>>

\* the lookup without the employer filter
ExistingRatingOfAnyEmployer(table, recruiter_id, employer_id) ==
    {i \in DOMAIN table : table[i].recruiter_id = recruiter_id}

\* the rows the existing_rating query matches; .first() takes the first one
existing_rating(table, recruiter_id, employer_id) ==
    {i \in DOMAIN table :
        /\ table[i].recruiter_id = recruiter_id
        /\ table[i].employer_id = employer_id}

\* job_id is "" where the form sends none: `if job_id` is false for both
post_rate_recruiter(u, recruiter_id, rating, comment, job_id) ==
    IF user_type(u) # "employer"
    THEN /\ AnswerRating("post_rate_recruiter", "403", EmptyBag)
         /\ UNCHANGED ratings
    ELSE IF recruiter_id \notin Recruiters
    THEN /\ AnswerRating("post_rate_recruiter", "404", EmptyBag)
         /\ UNCHANGED ratings
    ELSE LET existing == existing_rating(ratings, recruiter_id, u)
         IN  /\ IF existing # {}
                THEN LET i == First(existing)
                     IN  ratings' = [ratings EXCEPT
                             ![i].overall_rating = rating,
                             ![i].comment = comment,
                             ![i].job_id = IF job_id # "" THEN job_id ELSE @]
                ELSE /\ Len(ratings) < MaxRatings
                     /\ ratings' = Append(ratings,
                            [recruiter_id |-> recruiter_id, employer_id |-> u,
                             job_id |-> job_id, overall_rating |-> rating,
                             comment |-> comment])
             /\ AnswerRating("post_rate_recruiter", "303",
                             OneNotification(recruiter_id, "new_rating", ""))

\* the form's inputs: a recruiter's id or another user's, two ratings, an empty
\* and a non-empty comment, with and without a job
RatedUserInputs == Recruiters \cup {"e2"}
RatingInputs == {1, 5}
CommentInputs == {"", "good"}
RatingJobInputs == {""} \cup JobIds

NextRatings ==
    \E u \in Users, r \in RatedUserInputs, rating \in RatingInputs,
       comment \in CommentInputs, j \in RatingJobInputs :
        post_rate_recruiter(u, r, rating, comment, j)

SpecRatings == Init /\ [][NextRatings]_vars


\* ------------------------------------------------ the chat of an application
\* SpecChat: the Message and ChatFile tables.  A Message row carries
\* sender_id, recipient_id, related_application_id and message_type; a
\* ChatFile row carries the message_id of its message.
AnswerChat(op, resp, notifs) ==
    /\ lastOp' = op
    /\ response' = resp
    /\ newNotifications' = notifs
    /\ UNCHANGED <<jobs, payments, applications, inflight, notifications,
                   ratings, pricing>>

\* Message(sender_id=..., recipient_id=..., related_application_id=...)
Message(sender_id, recipient_id, application_id, message_type) ==
    [sender_id |-> sender_id, recipient_id |-> recipient_id,
     related_application_id |-> application_id, message_type |-> message_type]

\* application.job.employer_id
EmployerOf(application_id) == jobs[applications[application_id].job_id].employer_id

\* the NEW_MESSAGE notification of the recipient
MessageNotification(recipient_id) == OneNotification(recipient_id, "new_message", "")

\* send_chat_message, lines 1544-1548: a recruiter must be the application's,
\* an employer the job's; no check names the other user types
send_chat_message_access(u, application_id) ==
    /\ ~(user_type(u) = "recruiter" /\ applications[application_id].recruiter_id # u)
    /\ ~(user_type(u) = "employer" /\ EmployerOf(application_id) # u)

send_message_api(u, application_id, message_type) ==
    IF application_id \notin DOMAIN applications
    THEN /\ AnswerChat("send_message_api", "not_found", EmptyBag)
         /\ UNCHANGED <<messages, chat_files>>
    ELSE IF \/ user_type(u) = "recruiter" /\ applications[application_id].recruiter_id # u
            \/ user_type(u) = "employer" /\ EmployerOf(application_id) # u
    THEN /\ AnswerChat("send_message_api", "no_access", EmptyBag)
         /\ UNCHANGED <<messages, chat_files>>
    ELSE IF user_type(u) \notin {"recruiter", "employer"}
    THEN /\ AnswerChat("send_message_api", "no_rights", EmptyBag)
         /\ UNCHANGED <<messages, chat_files>>
    ELSE LET recipient_id == IF user_type(u) = "recruiter"
                             THEN EmployerOf(application_id)
                             ELSE applications[application_id].recruiter_id
         IN  /\ Len(messages) < MaxMessages
             /\ messages' = Append(messages,
                               Message(u, recipient_id, application_id, message_type))
             /\ AnswerChat("send_message_api", "success",
                           MessageNotification(recipient_id))
             /\ UNCHANGED chat_files

send_chat_message(u, application_id, content, files) ==
    IF application_id \notin DOMAIN applications
    THEN /\ AnswerChat("send_chat_message", "404", EmptyBag)
         /\ UNCHANGED <<messages, chat_files>>
    ELSE IF ~send_chat_message_access(u, application_id)
    THEN /\ AnswerChat("send_chat_message", "403", EmptyBag)
         /\ UNCHANGED <<messages, chat_files>>
    ELSE IF content = "" /\ ~files
    THEN /\ AnswerChat("send_chat_message", "400", EmptyBag)
         /\ UNCHANGED <<messages, chat_files>>
    ELSE LET receiver_id == IF user_type(u) = "recruiter"
                            THEN EmployerOf(application_id)
                            ELSE applications[application_id].recruiter_id
         IN  /\ Len(messages) < MaxMessages
             /\ messages' = Append(messages,
                               Message(u, receiver_id, application_id,
                                       IF files THEN "file" ELSE "text"))
             /\ AnswerChat("send_chat_message", "success",
                           MessageNotification(receiver_id))
             /\ UNCHANGED chat_files

upload_chat_file_api(u, application_id) ==
    IF application_id \notin DOMAIN applications
    THEN /\ AnswerChat("upload_chat_file_api", "not_found", EmptyBag)
         /\ UNCHANGED <<messages, chat_files>>
    ELSE LET has_access ==
                 \/ user_type(u) = "recruiter"
                    /\ applications[application_id].recruiter_id = u
                 \/ user_type(u) = "employer" /\ EmployerOf(application_id) = u
             recipient_id == IF user_type(u) = "recruiter"
                             THEN EmployerOf(application_id)
                             ELSE applications[application_id].recruiter_id
         IN  IF ~has_access
             THEN /\ AnswerChat("upload_chat_file_api", "no_access", EmptyBag)
                  /\ UNCHANGED <<messages, chat_files>>
             ELSE /\ Len(messages) < MaxMessages
                  /\ messages' = Append(messages,
                                    Message(u, recipient_id, application_id, "file"))
                  /\ chat_files' = Append(chat_files,
                                      [message_id |-> Len(messages) + 1])
                  /\ AnswerChat("upload_chat_file_api", "success", EmptyBag)

\* download_chat_file reads message.sender_id and message.receiver_id: reading
\* an attribute the Message row does not have raises AttributeError, which no
\* handler catches (500).  The uploaded file is on the disk.
download_chat_file(u, file_id) ==
    /\ UNCHANGED <<messages, chat_files>>
    /\ IF file_id \notin DOMAIN chat_files
       THEN AnswerChat("download_chat_file", "404", EmptyBag)
       ELSE IF chat_files[file_id].message_id \notin DOMAIN messages
       THEN AnswerChat("download_chat_file", "404", EmptyBag)
       ELSE LET message == messages[chat_files[file_id].message_id]
            IN  IF ~({"sender_id", "receiver_id"} \subseteq DOMAIN message)
                THEN AnswerChat("download_chat_file", "500", EmptyBag)
                ELSE IF /\ u \notin {message["sender_id"], message["receiver_id"]}
                        /\ user_type(u) # "admin"
                THEN AnswerChat("download_chat_file", "403", EmptyBag)
                ELSE AnswerChat("download_chat_file", "200", EmptyBag)

\* SpecChat starts where the lifecycle leaves a paid, open job of e1 with the
\* applications of r1 and r2.
InitChat ==
    /\ jobs = [j \in JobIds |->
                 [employer_id |-> "e1", status |-> "open",
                  salary_min |-> ParseSalary(LifecycleSalary),
                  salary_max |-> ParseSalary(LifecycleSalary),
                  max_applications |-> DefaultMaxApplications]]
    /\ payments = <<[job_id |-> "j1", employer_id |-> "e1",
                     amount |-> calculate_posting_price(ParseSalary(LifecycleSalary),
                                                        ParseSalary(LifecycleSalary)),
                     status |-> "paid"]>>
    /\ applications = [id \in {<<"j1", "r1", 1>>, <<"j1", "r2", 1>>} |->
                         [job_id |-> id[1], recruiter_id |-> id[2],
                          status |-> "pending"]]
    /\ newNotifications = OneNotification("e1", "new_application", "j1")
    /\ lastOp = "post_apply"
    /\ response = "applied"
    /\ inflight = [w \in Workers |-> Idle]
    /\ notifications = <<>>
    /\ EmptyOtherTables

\* the forms' inputs: a text or a file message, an empty or a non-empty
\* content, with or without attached files, a file id that exists or not
MessageTypeInputs == {"text", "file"}
ContentInputs == {"", "hi"}
FileIdInputs == DOMAIN chat_files \cup {Len(chat_files) + 1}

NextChat ==
    \/ \E u \in Users, a \in ApplicationIdInputs, t \in MessageTypeInputs :
          send_message_api(u, a, t)
    \/ \E u \in Users, a \in ApplicationIdInputs, c \in ContentInputs,
          f \in BOOLEAN : send_chat_message(u, a, c, f)
    \/ \E u \in Users, a \in ApplicationIdInputs : upload_chat_file_api(u, a)
    \/ \E u \in Users, f \in FileIdInputs : download_chat_file(u, f)

SpecChat == InitChat /\ [][NextChat]_vars


\* ------------------------------------------------- interleaved handlers
\* SpecConc: post_apply and change_application_status run on worker threads
\* and interleave at their database statements.  A session reads committed
\* rows; the Job object a handler has loaded keeps the column values of the
\* load until the session commits.
Finish(w, op, resp, notifs) ==
    /\ lastOp' = op
    /\ response' = resp
    /\ newNotifications' = notifs
    /\ inflight' = [inflight EXCEPT ![w] = Idle]
    /\ notifications' = notifications
    /\ UNCHANGED OtherTables

\* the request goes on: nothing is answered yet
NoAnswer ==
    UNCHANGED <<newNotifications, lastOp, response, notifications, OtherTables>>

Goto(w, pc) == inflight' = [inflight EXCEPT ![w].pc = pc]

Quiet ==
    UNCHANGED <<jobs, payments, applications, newNotifications, lastOp, response,
                notifications, OtherTables>>

\* post_apply, lines 1014-1022: the role check and the load of the job
apply_load_job(w, u, job_id) ==
    /\ inflight[w] = Idle
    /\ IF user_type(u) # "recruiter"
       THEN Finish(w, "post_apply", "403", EmptyBag)
       ELSE IF ~JobExists(job_id)
       THEN Finish(w, "post_apply", "404", EmptyBag)
       ELSE IF jobs[job_id].status # "open"
       THEN Finish(w, "post_apply", "job_not_open", EmptyBag)
       ELSE /\ inflight' = [inflight EXCEPT ![w] =
                   [op |-> "post_apply", pc |-> "count", user |-> u,
                    job_id |-> job_id, job |-> jobs[job_id]]]
            /\ NoAnswer
    /\ UNCHANGED <<jobs, payments, applications>>

\* lines 1024-1027: the count of the job's applications
apply_count(w) ==
    /\ inflight[w].op = "post_apply" /\ inflight[w].pc = "count"
    /\ IF Cardinality(ApplicationsOfJob(applications, inflight[w].job_id))
            >= inflight[w].job.max_applications
       THEN Finish(w, "post_apply", "max_applications", EmptyBag)
       ELSE Goto(w, "existing") /\ NoAnswer
    /\ UNCHANGED <<jobs, payments, applications>>

\* lines 1029-1042: the recruiter's existing application
apply_existing(w) ==
    /\ inflight[w].op = "post_apply" /\ inflight[w].pc = "existing"
    /\ IF existing_application(applications, inflight[w].job_id, inflight[w].user)
       THEN Finish(w, "post_apply", "already_applied", EmptyBag)
       ELSE Goto(w, "insert") /\ NoAnswer
    /\ UNCHANGED <<jobs, payments, applications>>

\* lines 1044-1066: the insert and its commit, then auto_update_job_status
\* on the reloaded job and the notifications
apply_insert(w) ==
    /\ inflight[w].op = "post_apply" /\ inflight[w].pc = "insert"
    /\ LET u == inflight[w].user
           job_id == inflight[w].job_id
       IN  \E id \in FreshApplicationIds(applications, job_id, u) :
           LET apps == Insert(applications, id,
                          [job_id |-> job_id, recruiter_id |-> u, status |-> "pending"])
               new_status == auto_update_job_status(apps, job_id, jobs[job_id])
           IN  /\ applications' = apps
               /\ jobs' = [jobs EXCEPT ![job_id].status = new_status]
               /\ Finish(w, "post_apply", "applied",
                    (IF new_status # jobs[job_id].status
                     THEN StatusChangeNotifications(apps, job_id) ELSE EmptyBag)
                    (+) OneNotification(jobs[job_id].employer_id,
                                        "new_application", job_id))
               /\ UNCHANGED payments

\* change_application_status, lines 1201-1207: the loads of the application
\* and of the job among the requester's jobs
select_load(w, u, application_id, new_status) ==
    /\ inflight[w] = Idle
    /\ IF application_id \notin DOMAIN applications
       THEN Finish(w, "change_application_status", "404", EmptyBag)
       ELSE IF ~OwnsJob(u, applications[application_id].job_id)
       THEN Finish(w, "change_application_status", "403", EmptyBag)
       ELSE /\ inflight' = [inflight EXCEPT ![w] =
                   [op |-> "change_application_status", pc |-> "guard", user |-> u,
                    application_id |-> application_id, new_status |-> new_status,
                    job_id |-> applications[application_id].job_id,
                    job |-> jobs[applications[application_id].job_id]]]
            /\ NoAnswer
    /\ UNCHANGED <<jobs, payments, applications>>

\* lines 1209-1219: the limit of selected recruiters
select_guard(w) ==
    /\ inflight[w].op = "change_application_status" /\ inflight[w].pc = "guard"
    /\ IF SelectionLimitReached(applications, inflight[w].application_id,
                                inflight[w].new_status)
       THEN Finish(w, "change_application_status", "400", EmptyBag)
       ELSE Goto(w, "write") /\ NoAnswer
    /\ UNCHANGED <<jobs, payments, applications>>

\* lines 1221-1270: the count after, the commit of application.status and of
\* job.status where the handler's Job object changed it, the notification
select_write(w) ==
    /\ inflight[w].op = "change_application_status" /\ inflight[w].pc = "write"
    /\ LET job_id == inflight[w].job_id
           a == inflight[w].application_id
           new_job_status == JobStatusAfterSelection(applications, job_id, inflight[w].job)
       IN  /\ applications' = [applications EXCEPT ![a].status = inflight[w].new_status]
           /\ jobs' = IF new_job_status # inflight[w].job.status
                      THEN [jobs EXCEPT ![job_id].status = new_job_status]
                      ELSE jobs
           /\ Finish(w, "change_application_status", "303",
                ApplicationStatusNotification(applications, a, inflight[w].user))
           /\ UNCHANGED payments

\* SpecConc starts where post_new_job, process_job_payment and the approval
\* by moderate_job leave the database: one paid, open job without
\* applications.
InitConc ==
    /\ jobs = [j \in JobIds |->
                 [employer_id |-> "e1", status |-> "open",
                  salary_min |-> ParseSalary(LifecycleSalary),
                  salary_max |-> ParseSalary(LifecycleSalary),
                  max_applications |-> DefaultMaxApplications]]
    /\ payments = <<[job_id |-> "j1", employer_id |-> "e1",
                     amount |-> calculate_posting_price(ParseSalary(LifecycleSalary),
                                                        ParseSalary(LifecycleSalary)),
                     status |-> "paid"]>>
    /\ applications = <<>>
    /\ newNotifications = OneNotification("e1", "job_approved", "j1")
    /\ lastOp = "moderate_job"
    /\ response = "303"
    /\ inflight = [w \in Workers |-> Idle]
    /\ notifications = <<>>
    /\ EmptyOtherTables

\* the thread pool hands a request to a free thread; the threads are
\* interchangeable, the model takes the first free one
FreeWorker(w) ==
    /\ inflight[w] = Idle
    /\ \A v \in Workers : v < w => inflight[v] # Idle

\* The requests of SpecConc: the recruiters apply, and the job's employer
\* asks for the statuses the limit guards.
NextConc ==
    \/ \E w \in Workers, u \in Recruiters, j \in JobIds :
          FreeWorker(w) /\ apply_load_job(w, u, j)
    \/ \E w \in Workers : apply_count(w)
    \/ \E w \in Workers : apply_existing(w)
    \/ \E w \in Workers : apply_insert(w)
    \/ \E w \in Workers, a \in DOMAIN applications, s \in SelectedOrWorking :
          FreeWorker(w) /\ select_load(w, "e1", a, s)
    \/ \E w \in Workers : select_guard(w)
    \/ \E w \in Workers : select_write(w)

SpecConc == InitConc /\ [][NextConc]_vars

TypeOK ==
    /\ \A j \in DOMAIN jobs : jobs[j].status \in JobStatus
    /\ \A a \in DOMAIN applications : applications[a].status \in ApplicationStatus

\* ================================================================= claims
\* the rows of a job, read off the table itself
RowsOf(job_id) == {i \in DOMAIN applications : applications[i].job_id = job_id}
SelectedRows(job_id) ==
    {i \in RowsOf(job_id) : applications[i].status \in {"selected", "working"}}
HasApplication(u, job_id) ==
    \E i \in RowsOf(job_id) : applications[i].recruiter_id = u
Paid(job_id) ==
    \E p \in DOMAIN payments :
        payments[p].job_id = job_id /\ payments[p].status = "paid"

C2_ThirdSelectionCompletesJob ==
    [][\A u \in Users, a \in DOMAIN applications :
          LET j == applications[a].job_id
          IN  ( /\ lastOp' = "change_application_status" /\ response' = "303"
                /\ change_application_status(u, a, "selected")
                /\ Paid(j) /\ jobs[j].status \in {"open", "in_progress"}
                /\ Cardinality(RowsOf(j)) = 3
                /\ applications[a].status = "pending"
                /\ \A b \in RowsOf(j) \ {a} : applications[b].status = "selected" )
              => jobs'[j].status = "completed"]_vars

\* C3: when the guard of a change_application_status request that asks for
\* selected or working finds 3 other applications of the job selected or
\* working, the request ends with the 400 answer, and the application's
\* status, the job's status and the notifications are as they were; the
\* request has written nothing before its guard either.
C3_FourthSelectionRefused ==
    [][\A w \in Workers :
          ( /\ inflight[w].op = "change_application_status"
            /\ inflight'[w] # inflight[w] )
              => /\ inflight[w].pc = "guard"
                     => /\ jobs' = jobs /\ applications' = applications
                        /\ payments' = payments
                 /\ ( /\ inflight[w].pc = "guard"
                      /\ inflight[w].new_status \in {"selected", "working"}
                      /\ Cardinality(SelectedRows(inflight[w].job_id)
                                       \ {inflight[w].application_id}) >= 3 )
                     => /\ inflight'[w] = Idle
                        /\ lastOp' = "change_application_status"
                        /\ response' = "400"
                        /\ newNotifications' = EmptyBag]_vars

C3_Witness ==
    /\ lastOp = "change_application_status" /\ response = "400"
    /\ \E a \in DOMAIN applications :
          /\ applications[a].status \notin {"selected", "working"}
          /\ Cardinality(SelectedRows(applications[a].job_id) \ {a}) = 3

\* C4: no two application rows have the same (job, recruiter) pair.
C4_OneApplicationPerRecruiter ==
    \A a, b \in DOMAIN applications :
        ( /\ applications[a].job_id = applications[b].job_id
          /\ applications[a].recruiter_id = applications[b].recruiter_id ) => a = b

C4_Witness ==
    /\ lastOp = "post_apply" /\ response = "already_applied"
    /\ Cardinality(DOMAIN applications) = 2

\* C5 as stated: a recruiter who already has an application on the job and
\* applies again is answered "already applied", whatever the job's state.
C5_ReapplyAlwaysAlreadyApplied ==
    [][\A u \in Recruiters, j \in DOMAIN jobs :
          (lastOp' = "post_apply" /\ HasApplication(u, j) /\ post_apply(u, j))
              => response' = "already_applied"]_vars

\* C5 amended: such a request never adds a row nor changes the job, and it
\* is answered "already applied" when the job is open with fewer applications
\* than max_applications, "job_not_open" when the job is not open, and
\* "max_applications" when the job is open and full.
C5_ReapplyRefused ==
    [][\A u \in Recruiters, j \in DOMAIN jobs :
          (lastOp' = "post_apply" /\ HasApplication(u, j) /\ post_apply(u, j))
              => /\ applications' = applications
                 /\ jobs' = jobs
                 /\ newNotifications' = EmptyBag
                 /\ response' =
                      IF jobs[j].status # "open" THEN "job_not_open"
                      ELSE IF Cardinality(RowsOf(j)) >= jobs[j].max_applications
                           THEN "max_applications"
                      ELSE "already_applied"]_vars

C5_Witness ==
    /\ lastOp = "post_apply" /\ response = "already_applied"
    /\ \E j \in DOMAIN jobs : jobs[j].status = "open" /\ Cardinality(RowsOf(j)) = 1

\* C6: whenever process_job_payment sets a job's status to pending, the
\* job's status before the request was draft.
C6_PayOnlyFromDraft ==
    [][\A u \in Users, j \in DOMAIN jobs :
          ( /\ lastOp' = "process_job_payment" /\ response' = "303"
            /\ process_job_payment(u, j) /\ jobs'[j].status = "pending" )
              => jobs[j].status = "draft"]_vars

\* C7: whenever moderate_job changes a job's status, the job's status before
\* the request was pending.
C7_ModerateOnlyPending ==
    [][\A u \in Users, j \in DOMAIN jobs, a \in ModerationActions :
          ( /\ lastOp' = "moderate_job" /\ jobs'[j].status # jobs[j].status
            /\ moderate_job(u, j, a) )
              => jobs[j].status = "pending"]_vars

\* C8: right after moderate_job has rejected a job, a process_job_payment,
\* moderate_job, post_apply or change_application_status request leaves the
\* job's status rejected.
C8_RejectedIsTerminal ==
    [][\A j \in DOMAIN jobs :
          ( /\ lastOp = "moderate_job" /\ response = "303"
            /\ jobs[j].status = "rejected"
            /\ newNotifications =
                 OneNotification(jobs[j].employer_id, "job_rejected", j)
            /\ lastOp' \in {"process_job_payment", "moderate_job", "post_apply",
                            "change_application_status"} )
              => jobs'[j].status = "rejected"]_vars

\* C9: every change of an application's status follows one of the edges
\* pending->selected, selected->working, working->completed, pending->rejected.
ApplicationEdges ==
    {<<"pending", "selected">>, <<"selected", "working">>,
     <<"working", "completed">>, <<"pending", "rejected">>}

C9_ApplicationEdgesOnly ==
    [][\A a \in DOMAIN applications :
          applications'[a].status # applications[a].status
              => <<applications[a].status, applications'[a].status>>
                    \in ApplicationEdges]_vars

\* C10 as stated: a post_apply that creates an application and brings the
\* job's applications to max_applications leaves the job in_progress; while
\* the count is below max_applications and no application is selected,
\* working or completed, the job stays open.
C10_LimitReachedInProgress ==
    [][\A u \in Recruiters, j \in DOMAIN jobs :
          (lastOp' = "post_apply" /\ response' = "applied" /\ post_apply(u, j))
              => LET rows == {i \in DOMAIN applications' : applications'[i].job_id = j}
                 IN  /\ Cardinality(rows) >= jobs[j].max_applications
                          => jobs'[j].status = "in_progress"
                     /\ ( /\ Cardinality(rows) < jobs[j].max_applications
                          /\ \A i \in rows : applications'[i].status
                               \notin {"selected", "working", "completed"} )
                          => jobs'[j].status = "open"]_vars

\* C10 amended: such a post_apply leaves the job in_progress unless one of
\* the job's applications is completed, and then it leaves the job
\* completed; while the count is below max_applications and no application
\* is selected, working or completed, the job stays open.
C10_LimitReachedUnlessCompleted ==
    [][\A u \in Recruiters, j \in DOMAIN jobs :
          (lastOp' = "post_apply" /\ response' = "applied" /\ post_apply(u, j))
              => LET rows == {i \in DOMAIN applications' : applications'[i].job_id = j}
                     done == \E i \in rows : applications'[i].status = "completed"
                 IN  /\ (Cardinality(rows) >= jobs[j].max_applications /\ ~done)
                          => jobs'[j].status = "in_progress"
                     /\ (Cardinality(rows) >= jobs[j].max_applications /\ done)
                          => jobs'[j].status = "completed"
                     /\ ( /\ Cardinality(rows) < jobs[j].max_applications
                          /\ \A i \in rows : applications'[i].status
                               \notin {"selected", "working", "completed"} )
                          => jobs'[j].status = "open"]_vars

C10_Witness ==
    /\ lastOp = "post_apply" /\ response = "applied"
    /\ \E j \in DOMAIN jobs :
          /\ Cardinality(RowsOf(j)) = jobs[j].max_applications
          /\ jobs[j].status = "in_progress"
          /\ \A i \in RowsOf(j) : applications[i].status = "pending"

\* the job_status_change row for recruiter r and job j
JobStatusChangeRow(r, j) ==
    [user_id |-> r, type |-> "job_status_change", related_job_id |-> j]

\* C11: a change_application_status request that sets an application of an
\* open job to selected or working leaves the job in_progress or completed.
C11_SelectionStartsJob ==
    [][\A u \in Users, a \in DOMAIN applications, s \in {"selected", "working"} :
          ( /\ lastOp' = "change_application_status" /\ response' = "303"
            /\ jobs[applications[a].job_id].status = "open"
            /\ change_application_status(u, a, s) )
              => jobs'[applications[a].job_id].status
                    \in {"in_progress", "completed"}]_vars

\* C12: a change_application_status request that sets an application to
\* completed on a job that is open or in_progress leaves the job completed.
C12_CompletionCompletesJob ==
    [][\A u \in Users, a \in DOMAIN applications :
          ( /\ lastOp' = "change_application_status" /\ response' = "303"
            /\ jobs[applications[a].job_id].status \in {"open", "in_progress"}
            /\ change_application_status(u, a, "completed") )
              => jobs'[applications[a].job_id].status = "completed"]_vars

\* C13: a post_apply, change_application_status or change_job_status request
\* that changes a job's stored status creates exactly one job_status_change
\* notification for each recruiter with an application on the job, and none
\* for the other recruiters.
C13_StatusChangeNotifiesRecruiters ==
    [][\A j \in DOMAIN jobs :
          ( /\ lastOp' \in {"post_apply", "change_application_status",
                            "change_job_status"}
            /\ jobs'[j].status # jobs[j].status )
              => \A r \in Recruiters :
                    CopiesIn(JobStatusChangeRow(r, j), newNotifications') =
                       IF \E i \in DOMAIN applications' :
                              /\ applications'[i].job_id = j
                              /\ applications'[i].recruiter_id = r
                       THEN 1 ELSE 0]_vars

\* C14: a successful process_job_payment creates one payment_success
\* notification for the payer, one new_job notification for each admin, and
\* no other notification.
C14_PaymentNotifications ==
    [][\A u \in Users, j \in DOMAIN jobs :
          ( /\ lastOp' = "process_job_payment" /\ response' = "303"
            /\ process_job_payment(u, j) )
              => /\ BagToSet(newNotifications') =
                      {[user_id |-> u, type |-> "payment_success",
                        related_job_id |-> j]}
                      \cup {[user_id |-> a, type |-> "new_job", related_job_id |-> j] :
                               a \in {x \in Users : user_type(x) = "admin"}}
                 /\ \A n \in BagToSet(newNotifications') :
                       CopiesIn(n, newNotifications') = 1]_vars

C14_Witness ==
    /\ lastOp = "process_job_payment" /\ response = "303"
    /\ \E j \in DOMAIN jobs :
          /\ BagIn([user_id |-> jobs[j].employer_id, type |-> "payment_success",
                    related_job_id |-> j], newNotifications)
          /\ \E a, b \in Users :
                /\ a # b
                /\ BagIn([user_id |-> a, type |-> "new_job", related_job_id |-> j],
                         newNotifications)
                /\ BagIn([user_id |-> b, type |-> "new_job", related_job_id |-> j],
                         newNotifications)

\* C15: a successful change_application_status creates exactly one
\* application_status_change notification, addressed to the recruiter of the
\* application whose status was requested.
C15_OneNotificationToRecruiter ==
    [][(lastOp' = "change_application_status" /\ response' = "303")
          => \A a \in DOMAIN applications, u \in Users :
                change_application_status(u, a, applications'[a].status)
                    => LET changes == {n \in BagToSet(newNotifications') :
                                          n.type = "application_status_change"}
                       IN  /\ changes = {[user_id |-> applications[a].recruiter_id,
                                          type |-> "application_status_change",
                                          related_job_id |-> applications[a].job_id]}
                           /\ \A n \in changes :
                                 CopiesIn(n, newNotifications') = 1]_vars

\* the third of three selections has just been served
C15_Witness ==
    /\ lastOp = "change_application_status" /\ response = "303"
    /\ \E j \in DOMAIN jobs :
          /\ Cardinality(SelectedRows(j)) = 3
          /\ \E i \in SelectedRows(j) :
                BagIn([user_id |-> applications[i].recruiter_id,
                       type |-> "application_status_change", related_job_id |-> j],
                      newNotifications)

\* C16: a change_application_status request by a user who is not the
\* employer of the application's job is answered 403 and changes no
\* application, no job and creates no notification: a step that is not such
\* a refusal is not the request of a user who does not own the job.
C16_NonOwnerForbidden ==
    [][( /\ lastOp' = "change_application_status"
         /\ ~ ( /\ response' = "403"
                /\ applications' = applications
                /\ jobs' = jobs
                /\ newNotifications' = EmptyBag ) )
          => \A a \in DOMAIN applications, u \in Users :
                jobs[applications[a].job_id].employer_id # u
                    => \A s \in ApplicationStatus :
                          ~change_application_status(u, a, s)]_vars

C16_Witness ==
    /\ lastOp = "change_application_status" /\ response = "403"
    /\ DOMAIN applications # {}

\* C17: with draft < pending < open < in_progress < completed, a job's
\* status goes from a later status to an earlier one only through a
\* change_job_status or moderate_job request.
JobStatusRank(s) ==
    CASE s = "draft" -> 1 [] s = "pending" -> 2 [] s = "open" -> 3
      [] s = "in_progress" -> 4 [] s = "completed" -> 5 [] OTHER -> 0

GoesBackwards(old, new) ==
    /\ JobStatusRank(old) > 0 /\ JobStatusRank(new) > 0
    /\ JobStatusRank(new) < JobStatusRank(old)

C17_BackwardsOnlyExplicit ==
    [][\A j \in DOMAIN jobs :
          GoesBackwards(jobs[j].status, jobs'[j].status)
              => lastOp' \in {"change_job_status", "moderate_job"}]_vars

\* the part of C17 about the automatic rules alone
AutomaticRulesNeverBackwards ==
    [][\A j \in DOMAIN jobs :
          lastOp' \in {"post_apply", "change_application_status"}
              => ~GoesBackwards(jobs[j].status, jobs'[j].status)]_vars

\* C18: a change_job_status request by the job's employer is accepted
\* whatever the job's status and the requested status are, and leaves the
\* job with the requested status; by any other user it is answered 404 and
\* leaves the job's row as it was.
C18_ManualStatusAnyToAny ==
    [][lastOp' = "change_job_status"
          => \A u \in Users, j \in DOMAIN jobs, s \in JobStatus :
                change_job_status(u, j, s)
                    => IF jobs[j].employer_id = u
                       THEN response' = "303" /\ jobs'[j].status = s
                       ELSE /\ response' = "404" /\ jobs' = jobs
                            /\ newNotifications' = EmptyBag]_vars

\* the employer has taken a job with applications back to draft
C18_Witness ==
    /\ lastOp = "change_job_status" /\ response = "303"
    /\ \E j \in DOMAIN jobs : jobs[j].status = "draft" /\ RowsOf(j) # {}

\* the posting price of section 4.1, in twentieths of a tenge: 3000 when a
\* salary is negative or both are 0, else the larger of 70% of the average
\* salary and 3000
PostingPriceOf(a, b) ==
    IF a < 0 \/ b < 0 \/ (a = 0 /\ b = 0) THEN 20 * 3000
    ELSE IF 7 * (a + b) > 20 * 3000 THEN 7 * (a + b) ELSE 20 * 3000

PaymentRowsOf(job_id) == {p \in DOMAIN payments : payments[p].job_id = job_id}

\* C19: every job has at most one payment record, whose amount is the posting
\* price of the job's stored salary_min and salary_max, and a successful
\* post_new_job adds exactly one payment, of status pending, for its new job.
C19_OnePaymentPerJob ==
    /\ [](\A j \in DOMAIN jobs :
             /\ Cardinality(PaymentRowsOf(j)) <= 1
             /\ \A p \in PaymentRowsOf(j) :
                   payments[p].amount =
                      PostingPriceOf(jobs[j].salary_min, jobs[j].salary_max))
    /\ [][(lastOp' = "post_new_job" /\ response' = "303")
             => /\ Len(payments') = Len(payments) + 1
                /\ payments'[Len(payments')].status = "pending"
                /\ payments'[Len(payments')].job_id \in DOMAIN jobs' \ DOMAIN jobs
                /\ \A j \in DOMAIN jobs' \ DOMAIN jobs :
                      Cardinality({p \in DOMAIN payments' :
                                      payments'[p].job_id = j}) = 1]_vars

\* two jobs posted, one priced above the minimum and one at the minimum
C19_Witness ==
    /\ lastOp = "post_new_job" /\ response = "303"
    /\ Len(payments) = 2
    /\ \E p, q \in DOMAIN payments :
          /\ payments[p].amount = 20 * 3000
          /\ payments[q].amount > 20 * 3000
          /\ payments[q].status = "paid"

\* C20: mark_all_notifications_read by user u leaves every notification of u
\* read and every other notification's is_read as it was, and neither adds
\* nor removes a notification.
C20_MarkAllReadOwnOnly ==
    [][lastOp' = "mark_all_notifications_read"
          => \A u \in Users :
                mark_all_notifications_read(u)
                    => /\ DOMAIN notifications' = DOMAIN notifications
                       /\ \A i \in DOMAIN notifications :
                             /\ notifications'[i].user_id = notifications[i].user_id
                             /\ notifications'[i].type = notifications[i].type
                             /\ notifications'[i].is_read =
                                   IF notifications[i].user_id = u THEN TRUE
                                   ELSE notifications[i].is_read]_vars

\* u's rows are read, another user's row is still unread
C20_Witness ==
    /\ lastOp = "mark_all_notifications_read"
    /\ \E i, k \in DOMAIN notifications :
          /\ notifications[i].is_read /\ ~notifications[k].is_read
          /\ notifications[i].user_id # notifications[k].user_id
          /\ \A m \in DOMAIN notifications :
                notifications[m].user_id = notifications[i].user_id
                    => notifications[m].is_read

\* C21: for every pair of integers, negative, zero and salary_min above
\* salary_max included, calculate_posting_price returns at least the minimum
\* posting price 3000.
C21_PriceAtLeastMinimum ==
    pricing.called => pricing.price >= 20 * 3000

\* a negative salary, and a salary_min above salary_max priced over the minimum
C21_Witness ==
    /\ pricing.called
    /\ \/ pricing.salary_min < 0 /\ pricing.salary_max > 0
       \/ /\ pricing.salary_min > pricing.salary_max /\ pricing.salary_max > 0
          /\ pricing.price > 20 * 3000

\* C22: calculate_posting_price(a, b) is 3000 if a < 0 or b < 0 or a = b = 0,
\* and otherwise the larger of ((a + b) / 2) * 0.7 and 3000; price(0, 0) =
\* price(-5, -5) = 3000, price(10000, 20000) = 10500 and
\* price(200000, 400000) = 210000.
C22_PriceIsReference ==
    pricing.called =>
        LET a == pricing.salary_min
            b == pricing.salary_max
        IN  /\ pricing.price =
                  IF a < 0 \/ b < 0 \/ (a = 0 /\ b = 0) THEN 20 * 3000
                  ELSE IF 7 * (a + b) >= 20 * 3000 THEN 7 * (a + b) ELSE 20 * 3000
            /\ (a = 0 /\ b = 0) => pricing.price = 20 * 3000
            /\ (a = -5 /\ b = -5) => pricing.price = 20 * 3000
            /\ (a = 10000 /\ b = 20000) => pricing.price = 20 * 10500
            /\ (a = 200000 /\ b = 400000) => pricing.price = 20 * 210000

C22_Witness ==
    /\ pricing.called
    /\ pricing.salary_min = 10000 /\ pricing.salary_max = 20000
    /\ pricing.price = 20 * 10500

\* the requests in flight that have passed the guard of
\* change_application_status and will add a selected application to the job
PendingSelections(job_id) ==
    {w \in Workers :
        /\ inflight[w].op = "change_application_status"
        /\ inflight[w].pc = "write"
        /\ inflight[w].job_id = job_id
        /\ applications[inflight[w].application_id].status \notin SelectedOrWorking}

\* C25: when handlers interleave at the granularity of database reads and
\* writes, a state in which one job has more than 3 applications in
\* {selected, working} is reachable: each request in flight can pass the guard
\* of change_application_status before the others write, so the cap is
\* exceeded, by at most one application per further request in flight.
C25_CapExceededByRace ==
    \A j \in DOMAIN jobs :
        Cardinality(SelectedRows(j)) + Cardinality(PendingSelections(j))
            <= SelectedLimit + (MaxInFlight - 1)

\* a job with more than SelectedLimit applications in {selected, working}
C25_Witness ==
    \E j \in DOMAIN jobs : Cardinality(SelectedRows(j)) > SelectedLimit

\* C26: a post_apply or change_application_status request moves a job to
\* completed only from open or in_progress: a draft, pending, paused, archived
\* or rejected job is never completed by an application status change.
C26_CompletedOnlyFromOpenOrInProgress ==
    [][\A j \in DOMAIN jobs :
          ( /\ lastOp' \in {"post_apply", "change_application_status"}
            /\ jobs'[j].status = "completed" /\ jobs[j].status # "completed" )
              => jobs[j].status \in {"open", "in_progress"}]_vars

\* C27: in every reachable state a job whose payment is not paid is a draft,
\* so that no job is open, and none has an application, without having been
\* paid.
C27_UnpaidIsDraft ==
    \A j \in DOMAIN jobs : ~Paid(j) => jobs[j].status = "draft"

\* the consequence C27 draws: applications only for paid jobs
C27_NoApplicationUnpaid ==
    \A j \in DOMAIN jobs : RowsOf(j) # {} => Paid(j)

C30_FailedPostingStoresNothing ==
    [][(lastOp' = "post_new_job" /\ response' = "error")
          => jobs' = jobs /\ payments' = payments]_vars

\* what C30 concludes: no job is left without a payment
C30_NoJobWithoutPayment ==
    \A j \in DOMAIN jobs : PaymentRowsOf(j) # {}

\* C23: with post_rate_recruiter requests running one at a time there is at
\* most one rating per (recruiter, employer) pair: a second rating by the same
\* employer for the same recruiter overwrites the overall rating and the
\* comment of the existing row instead of adding one, and the rows of other
\* pairs stay as they are.
C23_OneRatingPerPair ==
    /\ [](\A i, k \in DOMAIN ratings :
             ( /\ ratings[i].recruiter_id = ratings[k].recruiter_id
               /\ ratings[i].employer_id = ratings[k].employer_id ) => i = k)
    /\ [][\A u \in Employers, r \in Recruiters, rating \in RatingInputs,
             comment \in CommentInputs, j \in RatingJobInputs :
             ( /\ lastOp' = "post_rate_recruiter" /\ response' = "303"
               /\ post_rate_recruiter(u, r, rating, comment, j) )
                 => LET mine(i) == /\ ratings[i].recruiter_id = r
                                   /\ ratings[i].employer_id = u
                    IN  /\ \A i \in DOMAIN ratings :
                              IF mine(i)
                              THEN /\ ratings'[i].overall_rating = rating
                                   /\ ratings'[i].comment = comment
                              ELSE ratings'[i] = ratings[i]
                        /\ Len(ratings') =
                              IF \E i \in DOMAIN ratings : mine(i)
                              THEN Len(ratings) ELSE Len(ratings) + 1]_vars

\* e1 has rated r1 again after rating r2: the last request notified r1, whose
\* row is not the last one, and the row of r2 is still there
C23_Witness ==
    /\ lastOp = "post_rate_recruiter" /\ response = "303"
    /\ newNotifications = OneNotification("r1", "new_rating", "")
    /\ Len(ratings) = 2
    /\ ratings[1].recruiter_id = "r1" /\ ratings[1].employer_id = "e1"
    /\ ratings[1].overall_rating = 5 /\ ratings[1].comment = "good"
    /\ ratings[2].recruiter_id = "r2" /\ ratings[2].employer_id = "e1"

\* C24: a download_chat_file request for an existing chat file whose message
\* exists succeeds when the requester is the sender or the recipient of the
\* message or an admin, and is refused with 403 for every other user; it has
\* no other outcome.
C24_DownloadAllowedOrForbidden ==
    [][\A u \in Users, f \in DOMAIN chat_files :
          ( /\ lastOp' = "download_chat_file"
            /\ chat_files[f].message_id \in DOMAIN messages
            /\ download_chat_file(u, f) )
              => LET message == messages[chat_files[f].message_id]
                 IN  response' =
                        IF \/ u \in {message.sender_id, message.recipient_id}
                           \/ user_type(u) = "admin"
                        THEN "200" ELSE "403"]_vars

\* C29: every message linked to an application has as its sender and its
\* recipient exactly the application's recruiter and the employer of the
\* application's job, in either order: no third user, an admin included, adds
\* a message to the thread.
C29_ThreadOfRecruiterAndEmployer ==
    \A m \in DOMAIN messages :
        LET a == messages[m].related_application_id
        IN  /\ messages[m].sender_id # messages[m].recipient_id
            /\ {messages[m].sender_id, messages[m].recipient_id} =
                  {applications[a].recruiter_id, EmployerOf(a)}
====
